---- MODULE Spec2Model ----
(***************************************************************************)
(* Model of the distributed EHR node: the Beanie/MongoDB patient           *)
(* repository (ehr-crud-service/crud_service.py, models.py), the gRPC      *)
(* servicer in front of it (ehr-crud-service/grpc_server.py) and the       *)
(* FastAPI gateway with its JWT role gate (api-gateway-service/main.py,    *)
(* auth/auth.py).                                                          *)
(*                                                                         *)
(* Python dicts are functions with a string domain; a pydantic model       *)
(* object is a record holding every declared field; Python's None is the   *)
(* string "None" for a scalar field and the record None_ for a section.    *)
(* A date or datetime is denoted by its ISO text: the handlers'            *)
(* parse_dates_recursive and pydantic's own coercion both turn that text   *)
(* into the same date.                                                     *)
(***************************************************************************)
EXTENDS Integers, Sequences, FiniteSets, TLC

VARIABLES
    store,      \* the "patients" collection: uuid -> stored Patient, or None_
    now,        \* the clock read by datetime.now(timezone.utc)
    drawn,      \* history: the uuids uuid4 has handed out
    nUpdates,   \* history: uuid -> updates that wrote to the document
    last,       \* the request handled last and what was answered
    calls       \* caller -> the RPC call it has in flight and where it stands

vars == <<store, now, drawn, nUpdates, last, calls>>

(***************************************************************************)
(* Bounds                                                                  *)
(***************************************************************************)
MaxTime == 2        \* the clock runs 0..MaxTime

Uuids == {1, 2}     \* the values uuid4 can return

(***************************************************************************)
(* Values                                                                  *)
(***************************************************************************)
None_ == [none |-> TRUE]
EmptyDict == [k \in {} |-> "None"]

PatientIds == {"P-001", "P-002"}

Name1 == [given |-> "Jane", family |-> "Doe"]
\* a request's demographics as the caller sends them: only the keys set
DemoReq1 == [name |-> Name1, dob |-> "1990-01-15"]
DemoReq2 == [name |-> Name1, dob |-> "1991-01-15", sexAtBirth |-> "female"]

ContactsFull == [address |-> "Helsinki", phone |-> "+358-1", email |-> "j@x.fi"]
ContactsPhone == [phone |-> "+358-2"]

Cond1 == [id |-> "c1", description |-> "asthma", recordedAt |-> "2026-01-25T10:42:31"]

(***************************************************************************)
(* uuid.UUID(s): the canonical form and an upper-case spelling parse to    *)
(* the same UUID; other strings raise ValueError.                          *)
(***************************************************************************)
IdStrings == {"u1", "U1", "u2", "not-a-uuid"}
BadUuid == 0
SpareUuid == 3      \* what uuid4 returns once every modelled uuid is taken

UUID(s) ==
    CASE s \in {"u1", "U1"} -> 1
      [] s = "u2" -> 2
      [] OTHER -> BadUuid


(***************************************************************************)
(* pydantic: a model constructor takes the declared fields from kwargs, fills  *)
(* the others from their defaults, ignores undeclared keys and raises      *)
(* ValidationError when a field without default is missing.                *)
(***************************************************************************)
Fill(defaults, kwargs) ==
    [k \in DOMAIN defaults |-> IF k \in DOMAIN kwargs THEN kwargs[k] ELSE defaults[k]]

Raise(e) == [exc |-> e]
Return(v) == [exc |-> "none", val |-> v]
HTTPException(status_code) == [exc |-> "HTTPException", status_code |-> status_code]

IdentityInfo(kw) ==
    IF "patientId" \in DOMAIN kw
    THEN Return(Fill([patientId |-> "None", mrn |-> "None", nationalId |-> "None"], kw))
    ELSE Raise("ValidationError")

Demographics(kw) ==
    IF {"name", "dob"} \subseteq DOMAIN kw
    THEN Return(Fill([name |-> Name1, dob |-> "None", sexAtBirth |-> "None",
                      genderIdentity |-> "None", deceased |-> FALSE], kw))
    ELSE Raise("ValidationError")

ContactInfo(kw) ==
    Return(Fill([address |-> "None", phone |-> "None", email |-> "None"], kw))

\* Optional[ContactInfo]: None stays None
OptContactInfo(v) == IF v = None_ THEN Return(None_) ELSE ContactInfo(v)

PatientCreate(kw) ==
    IF ~ ({"identity", "demographics", "sourceHospital"} \subseteq DOMAIN kw)
    THEN Raise("ValidationError")
    ELSE LET i == IdentityInfo(kw.identity)
             d == Demographics(kw.demographics)
             c == IF "contacts" \in DOMAIN kw THEN OptContactInfo(kw.contacts)
                  ELSE Return(None_)
         IN  IF i.exc # "none" \/ d.exc # "none" \/ c.exc # "none"
             THEN Raise("ValidationError")
             ELSE Return([identity |-> i.val, demographics |-> d.val,
                          contacts |-> c.val, sourceHospital |-> kw.sourceHospital])

MetaInfo(kw) ==
    IF "sourceHospital" \in DOMAIN kw
    THEN Return(Fill([sourceHospital |-> "None", replicaVector |-> EmptyDict], kw))
    ELSE Raise("ValidationError")

\* The Patient constructor: id, lastUpdated, created_at and updated_at come from
\* their default factories (uuid4 and three reads of the clock), version
\* defaults to 1; identity, demographics and meta have no default.
Patient(kw, uuid, t1, t2, t3) ==
    IF ~ ({"identity", "demographics", "meta"} \subseteq DOMAIN kw)
    THEN Raise("ValidationError")
    ELSE LET i == IdentityInfo(kw.identity)
             d == Demographics(kw.demographics)
             c == IF "contacts" \in DOMAIN kw THEN OptContactInfo(kw.contacts)
                  ELSE Return(None_)
             m == MetaInfo(kw.meta)
         IN  IF i.exc # "none" \/ d.exc # "none" \/ c.exc # "none" \/ m.exc # "none"
             THEN Raise("ValidationError")
             ELSE Return([id |-> uuid, version |-> 1, lastUpdated |-> t1,
                          identity |-> i.val, demographics |-> d.val,
                          contacts |-> c.val, conditions |-> <<>>,
                          allergies |-> <<>>, meta |-> m.val,
                          created_at |-> t2, updated_at |-> t3])

Condition(kw) ==
    IF {"id", "description", "recordedAt"} \subseteq DOMAIN kw
    THEN Return(Fill([id |-> "None", code |-> "None", system |-> "None",
                      description |-> "None", onset |-> "None", status |-> "active",
                      recordedAt |-> "None", encounterId |-> "None"], kw))
    ELSE Raise("ValidationError")

PatientUpdateFields ==
    {"demographics", "contacts", "encounters", "conditions", "allergies",
     "medications", "consents"}

\* PatientUpdate, had the model kept undeclared keys (extra = "allow")
PatientUpdate_extra_allowed(kw) ==
    IF /\ "demographics" \in DOMAIN kw
       /\ kw.demographics # None_
       /\ Demographics(kw.demographics).exc # "none"
    THEN Raise("ValidationError")
    ELSE Return(kw)

\* A PatientUpdate object is held as its model_dump(exclude_unset=True): the
\* declared fields the caller passed, each nested model with the keys the
\* caller passed. Undeclared keys are dropped.
PatientUpdate(kw) ==
    IF \/ /\ "demographics" \in DOMAIN kw
          /\ kw.demographics # None_
          /\ Demographics(kw.demographics).exc # "none"
       \/ /\ "conditions" \in DOMAIN kw
          /\ \E i \in 1..Len(kw.conditions) : Condition(kw.conditions[i]).exc # "none"
    THEN Raise("ValidationError")
    ELSE Return([k \in DOMAIN kw \cap PatientUpdateFields |-> kw[k]])

(***************************************************************************)
(* Beanie: Document.set(expression) sends {"$set": expression} for the     *)
(* document's _id, which replaces each named top-level field as a whole,   *)
(* and merges the written document, read back through the Patient model,   *)
(* into the local object.  Keys that are no Patient field are written but  *)
(* not read back.                                                          *)
(***************************************************************************)
ReadBack(k, v) ==
    CASE k = "contacts" -> OptContactInfo(v).val
      [] k = "demographics" -> Demographics(v).val
      [] k = "conditions" -> [i \in 1..Len(v) |-> Condition(v[i]).val]
      [] OTHER -> v

DocumentSet(patient, expression) ==
    [k \in DOMAIN patient |->
        IF k \in DOMAIN expression THEN ReadBack(k, expression[k]) ELSE patient[k]]

(***************************************************************************)
(* crud_service.py: the repository adapter.  Each operator gives what the  *)
(* function returns or raises and the collection it leaves.                *)
(*                                                                         *)
(* create_patient hands patient.model_dump(), whose keys are identity,     *)
(* demographics, contacts and sourceHospital, to the Patient constructor   *)
(* and inserts what it builds.  It looks nothing up before the insert.     *)
(***************************************************************************)
\* create_patient, had it built meta from sourceHospital before inserting
create_patient_with_meta(st, patient, uuid, t1, t2, t3) ==
    LET patient_obj ==
            Patient([meta |-> [sourceHospital |-> patient.sourceHospital]] @@ patient,
                    uuid, t1, t2, t3)
    IN  IF patient_obj.exc # "none"
        THEN [exc |-> patient_obj.exc, ret |-> None_, wrote |-> FALSE, store |-> st]
        ELSE [exc |-> "none", ret |-> patient_obj.val, wrote |-> TRUE,
              store |-> [u \in DOMAIN st |->
                            IF u = uuid THEN patient_obj.val ELSE st[u]]]

create_patient(st, patient, uuid, t1, t2, t3) ==
    LET patient_obj == Patient(patient, uuid, t1, t2, t3)
    IN  IF patient_obj.exc # "none"
        THEN [exc |-> patient_obj.exc, ret |-> None_, wrote |-> FALSE, store |-> st]
        ELSE [exc |-> "none", ret |-> patient_obj.val, wrote |-> TRUE,
              store |-> [u \in DOMAIN st |->
                            IF u = uuid THEN patient_obj.val ELSE st[u]]]

get_patient(st, patient_uuid) == st[patient_uuid]

\* update_patient without the early return for an empty update_data
update_patient_no_early_return(st, patient_uuid, patient_update, t) ==
    LET patient == st[patient_uuid]
        update_data == patient_update
    IN  IF patient = None_
        THEN [ret |-> None_, wrote |-> FALSE, store |-> st]
        ELSE LET doc == DocumentSet(patient, [updated_at |-> t] @@ update_data)
             IN  [ret |-> doc, wrote |-> TRUE,
                  store |-> [st EXCEPT ![patient_uuid] = doc]]

\* update_patient writing a version below the stored one
update_patient_version_down(st, patient_uuid, patient_update, t) ==
    LET patient == st[patient_uuid]
        update_data == patient_update
    IN  IF patient = None_
        THEN [ret |-> None_, wrote |-> FALSE, store |-> st]
        ELSE IF DOMAIN update_data = {}
        THEN [ret |-> patient, wrote |-> FALSE, store |-> st]
        ELSE LET doc == DocumentSet(patient,
                            [updated_at |-> t, version |-> patient.version - 1]
                                @@ update_data)
             IN  [ret |-> doc, wrote |-> TRUE,
                  store |-> [st EXCEPT ![patient_uuid] = doc]]

update_patient(st, patient_uuid, patient_update, t) ==
    LET patient == st[patient_uuid]
        update_data == patient_update
    IN  IF patient = None_
        THEN [ret |-> None_, wrote |-> FALSE, store |-> st]
        ELSE IF DOMAIN update_data = {}
        THEN [ret |-> patient, wrote |-> FALSE, store |-> st]
        ELSE LET doc == DocumentSet(patient, [updated_at |-> t] @@ update_data)
             IN  [ret |-> doc, wrote |-> TRUE,
                  store |-> [st EXCEPT ![patient_uuid] = doc]]

\* delete_patient marking the document instead of removing it
delete_patient_soft(st, patient_uuid) ==
    IF st[patient_uuid] = None_
    THEN [ret |-> FALSE, store |-> st]
    ELSE [ret |-> TRUE, store |-> st]

delete_patient(st, patient_uuid) ==
    IF st[patient_uuid] = None_
    THEN [ret |-> FALSE, store |-> st]
    ELSE [ret |-> TRUE, store |-> [st EXCEPT ![patient_uuid] = None_]]

\* Patient.find_all(): the stored documents in the collection's native
\* order, which no write between two reads changes; here the order of the
\* uuids
find_all(st) ==
    LET S == {u \in DOMAIN st : st[u] # None_}
    IN  [i \in 1..Cardinality(S) |->
            st[CHOOSE u \in S : Cardinality({v \in S : v < u}) = i - 1]]

\* cursor.skip(n) and cursor.limit(n); a limit of 0 is no limit
CursorSkip(docs, n) == SubSeq(docs, n + 1, Len(docs))
CursorLimit(docs, n) ==
    IF n = 0 \/ n >= Len(docs) THEN docs ELSE SubSeq(docs, 1, n)

\* get_all_patients with the limit applied before the skip
get_all_patients_limit_first(st, skip, limit) ==
    CursorSkip(CursorLimit(find_all(st), limit), skip)

get_all_patients(st, skip, limit) ==
    CursorLimit(CursorSkip(find_all(st), skip), limit)

\* get_patient_by_patient_id filters on Patient.patient_id, which is no
\* field of the Patient model: evaluating it raises AttributeError before
\* anything is read
get_patient_by_patient_id(st, patient_id) == Raise("AttributeError")

(***************************************************************************)
(* Requests                                                                *)
(***************************************************************************)
User(role, patient_uuid) == [role |-> role, patient_uuid |-> patient_uuid]

\* a bearer token: whether jwt.decode accepts it, and its payload
Token(ok, payload) == [ok |-> ok, payload |-> payload]
NoToken == Token(FALSE, User("", ""))

Tokens ==
    { Token(TRUE, User("doctor", "None")),
      Token(TRUE, User("patient", "u1")),
      Token(TRUE, User("nurse", "None")),
      Token(FALSE, User("doctor", "None")) }

Request(op, id, req, token) ==
    [op |-> op, id |-> id, req |-> req, token |-> token]

\* what a handler answered: the gRPC status, the HTTP status (0 for a
\* direct RPC), the Patient the adapter returned, the RPC methods and the
\* crud_service functions the request called
Answer(request, code, http, ret, rpc, repo) ==
    [op |-> request.op, id |-> request.id, req |-> request.req,
     token |-> request.token, code |-> code, http |-> http, ret |-> ret,
     rpc |-> rpc, repo |-> repo]

\* the patientData of a CreatePatientRequest
CreatePayloads ==
    { [identity |-> [patientId |-> p], demographics |-> DemoReq1,
       contacts |-> c, sourceHospital |-> h] :
         p \in PatientIds, c \in {None_, ContactsFull}, h \in {"HOSP-B"} }
    \cup { [identity |-> [patientId |-> "P-001"], sourceHospital |-> "HOSP-B"] }

\* the updateData of an UpdatePatientRequest
UpdatePayloads ==
    { EmptyDict,
      [contacts |-> ContactsPhone],
      [demographics |-> DemoReq2],
      [conditions |-> <<Cond1>>],
      [demographics |-> [name |-> Name1]],
      [identity |-> [patientId |-> "P-002"], contacts |-> ContactsPhone] }

(***************************************************************************)
(* grpc_server.py: EhrServiceServicer.  A handler runs to completion       *)
(* between two requests.                                                   *)
(***************************************************************************)
CreateStatus(exc) ==
    CASE exc = "none" -> "OK"
      [] exc \in {"ValueError", "ValidationError"} -> "ALREADY_EXISTS"
      [] OTHER -> "INTERNAL"

\* the handler as a function of the collection: status, returned Patient,
\* adapter calls, collection left
RpcCreatePatient(st, patientData, uuid, t1, t2, t3) ==
    LET patient_create == PatientCreate(patientData)
    IN  IF patient_create.exc # "none"
        THEN [code |-> CreateStatus(patient_create.exc), ret |-> None_,
              repo |-> <<>>, wrote |-> FALSE, store |-> st]
        ELSE LET r == create_patient(st, patient_create.val, uuid, t1, t2, t3)
             IN  [code |-> CreateStatus(r.exc), ret |-> r.ret,
                  repo |-> <<"create_patient">>, wrote |-> r.wrote,
                  store |-> r.store]

RpcGetPatient(st, id) ==
    LET patient_uuid == UUID(id)
    IN  IF patient_uuid = BadUuid
        THEN [code |-> "INVALID_ARGUMENT", ret |-> None_, repo |-> <<>>, store |-> st]
        ELSE LET patient == get_patient(st, patient_uuid)
             IN  [code |-> IF patient = None_ THEN "NOT_FOUND" ELSE "OK",
                  ret |-> patient, repo |-> <<"get_patient">>, store |-> st]

RpcUpdatePatient(st, id, updateData, t) ==
    LET patient_uuid == UUID(id)
        patient_update == PatientUpdate(updateData)
    IN  IF patient_uuid = BadUuid
        THEN [code |-> "INVALID_ARGUMENT", ret |-> None_, repo |-> <<>>,
              wrote |-> FALSE, store |-> st]
        ELSE IF patient_update.exc # "none"
        THEN [code |-> "INTERNAL", ret |-> None_, repo |-> <<>>,
              wrote |-> FALSE, store |-> st]
        ELSE LET r == update_patient(st, patient_uuid, patient_update.val, t)
             IN  [code |-> IF r.ret = None_ THEN "NOT_FOUND" ELSE "OK",
                  ret |-> r.ret, repo |-> <<"update_patient">>,
                  wrote |-> r.wrote, store |-> r.store]

\* the DeletePatientResponse a delete answers with
DeletePatientResponse(success) == [success |-> success]

\* DeletePatient handing an id it could not parse to the adapter as the
\* first uuid
RpcDeletePatient_no_id_check(st, id) ==
    LET patient_uuid == IF UUID(id) = BadUuid THEN 1 ELSE UUID(id)
        r == delete_patient(st, patient_uuid)
    IN  [code |-> IF r.ret THEN "OK" ELSE "NOT_FOUND",
         ret |-> DeletePatientResponse(r.ret),
         repo |-> <<"delete_patient">>, store |-> r.store]

\* DeletePatient answering a delete of a missing document like a delete
\* that succeeded
RpcDeletePatient_missing_is_ok(st, id) ==
    LET patient_uuid == UUID(id)
    IN  IF patient_uuid = BadUuid
        THEN [code |-> "INVALID_ARGUMENT", ret |-> DeletePatientResponse(FALSE),
              repo |-> <<>>, store |-> st]
        ELSE LET r == delete_patient(st, patient_uuid)
             IN  [code |-> "OK", ret |-> DeletePatientResponse(TRUE),
                  repo |-> <<"delete_patient">>, store |-> r.store]

RpcDeletePatient(st, id) ==
    LET patient_uuid == UUID(id)
    IN  IF patient_uuid = BadUuid
        THEN [code |-> "INVALID_ARGUMENT", ret |-> DeletePatientResponse(FALSE),
              repo |-> <<>>, store |-> st]
        ELSE LET r == delete_patient(st, patient_uuid)
             IN  [code |-> IF r.ret THEN "OK" ELSE "NOT_FOUND",
                  ret |-> DeletePatientResponse(r.ret),
                  repo |-> <<"delete_patient">>, store |-> r.store]

\* the skip and limit GetAllPatients hands to the adapter
ListSkip(skip) == IF skip > 0 THEN skip ELSE 0
ListLimit(limit) == IF limit > 0 THEN limit ELSE 100

\* ret holds the arguments the adapter was called with and the documents
\* it returned
RpcGetAllPatients(st, skip, limit) ==
    LET patients == get_all_patients(st, ListSkip(skip), ListLimit(limit))
    IN  [code |-> "OK",
         ret |-> [skip |-> ListSkip(skip), limit |-> ListLimit(limit),
                  patients |-> patients],
         repo |-> <<"get_all_patients">>, store |-> st]

RpcSearchPatientById(st, patient_id) ==
    LET patient == get_patient_by_patient_id(st, patient_id)
    IN  IF patient.exc # "none"
        THEN [code |-> "INTERNAL", ret |-> None_,
              repo |-> <<"get_patient_by_patient_id">>, store |-> st]
        ELSE [code |-> IF patient.val = None_ THEN "NOT_FOUND" ELSE "OK",
              ret |-> patient.val,
              repo |-> <<"get_patient_by_patient_id">>, store |-> st]

\* uuid4 never repeats; an insert needs one of the modelled uuids
uuid4 == IF Uuids \ drawn = {} THEN {SpareUuid} ELSE Uuids \ drawn

\* the insert stamps the document's times from the clock, which may tick
\* between the three default factories
CreatePatient(patientData) ==
    \E uuid \in uuid4 :
    \E t3 \in {now, IF now < MaxTime THEN now + 1 ELSE now} :
        LET r == RpcCreatePatient(store, patientData, uuid, now, now, t3)
        IN  /\ r.wrote => uuid \in Uuids
            /\ store' = r.store
            /\ now' = IF r.wrote THEN t3 ELSE now
            /\ drawn' = IF r.wrote THEN drawn \cup {uuid} ELSE drawn
            /\ UNCHANGED <<nUpdates, calls>>
            /\ last' = Answer(Request("CreatePatient", "", patientData, NoToken),
                              r.code, 0, r.ret, <<>>, r.repo)

GetPatient(id) ==
    LET r == RpcGetPatient(store, id)
    IN  /\ last' = Answer(Request("GetPatient", id, EmptyDict, NoToken),
                          r.code, 0, r.ret, <<>>, r.repo)
        /\ UNCHANGED <<store, now, drawn, nUpdates, calls>>

UpdatePatient(id, updateData) ==
    /\ now < MaxTime
    /\ LET r == RpcUpdatePatient(store, id, updateData, now + 1)
       IN  /\ store' = r.store
           /\ now' = IF r.wrote THEN now + 1 ELSE now
           /\ nUpdates' = IF r.wrote
                           THEN [nUpdates EXCEPT ![UUID(id)] = @ + 1]
                           ELSE nUpdates
           /\ UNCHANGED <<drawn, calls>>
           /\ last' = Answer(Request("UpdatePatient", id, updateData, NoToken),
                             r.code, 0, r.ret, <<>>, r.repo)

DeletePatient(id) ==
    LET r == RpcDeletePatient(store, id)
    IN  /\ store' = r.store
        /\ last' = Answer(Request("DeletePatient", id, EmptyDict, NoToken),
                          r.code, 0, r.ret, <<>>, r.repo)
        /\ UNCHANGED <<now, drawn, nUpdates, calls>>

\* the skip and limit a GetAllPatientsRequest can carry (int32 fields)
ListSkips == {-1, 0, 1}
ListLimits == {-5, 1, 2, 1001}

GetAllPatients(skip, limit) ==
    LET r == RpcGetAllPatients(store, skip, limit)
    IN  /\ last' = Answer(Request("GetAllPatients", "",
                                  [skip |-> skip, limit |-> limit], NoToken),
                          r.code, 0, r.ret, <<>>, r.repo)
        /\ UNCHANGED <<store, now, drawn, nUpdates, calls>>

SearchPatientById(patient_id) ==
    LET r == RpcSearchPatientById(store, patient_id)
    IN  /\ last' = Answer(Request("SearchPatientById", patient_id, EmptyDict,
                                  NoToken),
                          r.code, 0, r.ret, <<>>, r.repo)
        /\ UNCHANGED <<store, now, drawn, nUpdates, calls>>

(***************************************************************************)
(* auth/auth.py: the role gate.  An HTTPException is Raise(status).        *)
(***************************************************************************)
get_current_user(token) ==
    IF token.ok THEN Return(token.payload) ELSE HTTPException(401)

require_doctor(token) ==
    LET user == get_current_user(token)
    IN  IF user.exc # "none" THEN user
        ELSE IF user.val.role # "doctor" THEN HTTPException(403)
        ELSE user

require_doctor_or_patient(token) ==
    LET user == get_current_user(token)
    IN  IF user.exc # "none" THEN user
        ELSE IF user.val.role \notin {"doctor", "patient"} THEN HTTPException(403)
        ELSE user

(***************************************************************************)
(* api-gateway-service: the FastAPI routes and their gRPC client.          *)
(***************************************************************************)
\* GrpcClient._patient_proto_to_dict: the keys of the dict it builds
PatientProtoDictKeys ==
    {"id", "patient_id", "name", "birth_date", "height", "weight",
     "blood_type", "diagnosis", "created_at", "updated_at"}

\* models.PatientResponse: the fields without default
PatientResponseRequired ==
    {"id", "version", "lastUpdated", "identity", "demographics", "meta",
     "created_at", "updated_at"}

PatientResponse(keys) ==
    IF PatientResponseRequired \subseteq keys THEN Return(keys)
    ELSE Raise("ValidationError")

\* the except clauses with the two tests for NOT_FOUND and INVALID_ARGUMENT
\* in one branch
HttpOfRpcError_one_branch(code) ==
    CASE code \in {"NOT_FOUND", "INVALID_ARGUMENT"} -> 404
      [] OTHER -> 500

\* the except clauses of get_patient, update_patient and delete_patient
HttpOfRpcError(code) ==
    CASE code = "NOT_FOUND" -> 404
      [] code = "INVALID_ARGUMENT" -> 400
      [] OTHER -> 500

\* get_patient without the comparison of the caller's patient_uuid
gw_get_patient_any_patient(st, patient_uuid, token) ==
    LET user == require_doctor_or_patient(token)
    IN  IF user.exc # "none"
        THEN [http |-> user.status_code, code |-> "", ret |-> None_, rpc |-> <<>>, repo |-> <<>>]
        ELSE LET r == RpcGetPatient(st, patient_uuid)
                 http == IF r.code # "OK" THEN HttpOfRpcError(r.code)
                         ELSE IF PatientResponse(PatientProtoDictKeys).exc # "none"
                         THEN 500
                         ELSE 200
             IN  [http |-> http, code |-> r.code, ret |-> r.ret,
                  rpc |-> <<"GetPatient">>, repo |-> r.repo]

\* GET /patients/{patient_uuid}
gw_get_patient(st, patient_uuid, token) ==
    LET user == require_doctor_or_patient(token)
    IN  IF user.exc # "none"
        THEN [http |-> user.status_code, code |-> "", ret |-> None_, rpc |-> <<>>, repo |-> <<>>]
        ELSE IF user.val.role = "patient" /\ user.val.patient_uuid # patient_uuid
        THEN [http |-> 403, code |-> "", ret |-> None_, rpc |-> <<>>, repo |-> <<>>]
        ELSE LET r == RpcGetPatient(st, patient_uuid)
                 http == IF r.code # "OK" THEN HttpOfRpcError(r.code)
                         ELSE IF PatientResponse(PatientProtoDictKeys).exc # "none"
                         THEN 500
                         ELSE 200
             IN  [http |-> http, code |-> r.code, ret |-> r.ret,
                  rpc |-> <<"GetPatient">>, repo |-> r.repo]

HttpGetPatient(patient_uuid, token) ==
    LET r == gw_get_patient(store, patient_uuid, token)
    IN  /\ last' = Answer(Request("GET /patients/{patient_uuid}", patient_uuid,
                                  EmptyDict, token),
                          r.code, r.http, r.ret, r.rpc, r.repo)
        /\ UNCHANGED <<store, now, drawn, nUpdates, calls>>

(***************************************************************************)
(* The routes guarded by require_doctor.  FastAPI solves a route's         *)
(* dependencies first, so an HTTPException of the role gate is the answer  *)
(* whatever the body or the query holds; a body or query that fails its    *)
(* model is answered 422 before the route function runs.                   *)
(***************************************************************************)
\* a request answered before the route reaches its client call
Refused(st, status_code) ==
    [http |-> status_code, code |-> "", ret |-> None_, rpc |-> <<>>,
     repo |-> <<>>, wrote |-> FALSE, store |-> st]

\* the gateway's own models (api-gateway-service/models.py)
GwPatientCreate(kw) == PatientCreate(kw)

GwCondition(kw) ==
    IF {"description", "recordedAt"} \subseteq DOMAIN kw
    THEN Return(Fill([code |-> "None", system |-> "None", description |-> "None",
                      onset |-> "None", status |-> "active",
                      recordedAt |-> "None", encounterId |-> "None"], kw))
    ELSE Raise("ValidationError")

\* model_dump(exclude_none=True) of a nested model: the optional fields
\* that are None are left out
ExcludeNone(obj, optional) ==
    [k \in {f \in DOMAIN obj : f \notin optional \/ obj[f] # "None"} |-> obj[k]]

GwPatientUpdateFields == {"demographics", "contacts", "conditions"}

\* a validated PatientUpdate body, held as its model_dump(exclude_none=True);
\* the conditions of a body are a list
GwPatientUpdate(kw) ==
    IF \/ /\ "demographics" \in DOMAIN kw
          /\ kw.demographics # None_
          /\ Demographics(kw.demographics).exc # "none"
       \/ /\ "conditions" \in DOMAIN kw
          /\ \E i \in 1..Len(kw.conditions) : GwCondition(kw.conditions[i]).exc # "none"
    THEN Raise("ValidationError")
    ELSE Return(
        [k \in {f \in DOMAIN kw \cap GwPatientUpdateFields :
                    f = "conditions" \/ kw[f] # None_} |->
            CASE k = "demographics" ->
                    ExcludeNone(Demographics(kw[k]).val, {"sexAtBirth", "genderIdentity"})
              [] k = "contacts" ->
                    ExcludeNone(ContactInfo(kw[k]).val, {"address", "phone", "email"})
              [] OTHER ->
                    [i \in 1..Len(kw[k]) |->
                        ExcludeNone(GwCondition(kw[k][i]).val,
                                    {"code", "system", "onset", "encounterId"})]])

\* GrpcClient.create_patient reads these keys of patient_data to build the
\* request; a missing one raises KeyError before the stub is called
ClientCreateKeys ==
    {"patient_id", "name", "birth_date", "height", "weight", "blood_type",
     "diagnosis"}

\* the except clauses of create_patient
HttpOfCreateError(code) ==
    CASE code = "INVALID_ARGUMENT" -> 400
      [] code = "ALREADY_EXISTS" -> 409
      [] OTHER -> 500

\* POST /patients.  The request GrpcClient.create_patient builds sets no
\* patientData.
gw_create_patient(st, body, token, uuid, t) ==
    LET user == require_doctor(token)
        patient == GwPatientCreate(body)
    IN  IF user.exc # "none" THEN Refused(st, user.status_code)
        ELSE IF patient.exc # "none" THEN Refused(st, 422)
        ELSE IF ~ (ClientCreateKeys \subseteq DOMAIN patient.val)
        THEN Refused(st, 500)
        ELSE LET r == RpcCreatePatient(st, EmptyDict, uuid, t, t, t)
             IN  [http |-> IF r.code # "OK" THEN HttpOfCreateError(r.code)
                           ELSE IF PatientResponse(PatientProtoDictKeys).exc # "none"
                           THEN 500
                           ELSE 201,
                  code |-> r.code, ret |-> r.ret, rpc |-> <<"CreatePatient">>,
                  repo |-> r.repo, wrote |-> r.wrote, store |-> r.store]

\* GET /patients: Query(0, ge=0) and Query(100, ge=1, le=1000).  A list of
\* no patients converts to a list of no PatientResponse.
gw_get_all_patients(st, skip, limit, token) ==
    LET user == require_doctor(token)
    IN  IF user.exc # "none" THEN Refused(st, user.status_code)
        ELSE IF skip < 0 \/ limit < 1 \/ limit > 1000 THEN Refused(st, 422)
        ELSE LET r == RpcGetAllPatients(st, skip, limit)
             IN  [http |-> IF r.code # "OK" THEN 500
                           ELSE IF r.ret.patients = <<>> THEN 200
                           ELSE IF PatientResponse(PatientProtoDictKeys).exc # "none"
                           THEN 500
                           ELSE 200,
                  code |-> r.code, ret |-> r.ret, rpc |-> <<"GetAllPatients">>,
                  repo |-> r.repo, wrote |-> FALSE, store |-> r.store]

\* the except clauses of search_patient_by_id
HttpOfSearchError(code) ==
    CASE code = "NOT_FOUND" -> 404
      [] OTHER -> 500

\* search_patient_by_id calling the RPC again after an answer the except
\* clauses map to 500
gw_search_patient_by_id_retrying(st, patient_id, token) ==
    LET user == require_doctor(token)
    IN  IF user.exc # "none" THEN Refused(st, user.status_code)
        ELSE LET first == RpcSearchPatientById(st, patient_id)
                 again == first.code \notin {"OK", "NOT_FOUND"}
                 r == IF again THEN RpcSearchPatientById(first.store, patient_id)
                      ELSE first
             IN  [http |-> IF r.code # "OK" THEN HttpOfSearchError(r.code)
                           ELSE IF PatientResponse(PatientProtoDictKeys).exc # "none"
                           THEN 500
                           ELSE 200,
                  code |-> r.code, ret |-> r.ret,
                  rpc |-> IF again
                          THEN <<"SearchPatientById", "SearchPatientById">>
                          ELSE <<"SearchPatientById">>,
                  repo |-> IF again THEN first.repo \o r.repo ELSE r.repo,
                  wrote |-> FALSE, store |-> r.store]

\* GET /patients/search/{patient_id}
gw_search_patient_by_id(st, patient_id, token) ==
    LET user == require_doctor(token)
    IN  IF user.exc # "none" THEN Refused(st, user.status_code)
        ELSE LET r == RpcSearchPatientById(st, patient_id)
             IN  [http |-> IF r.code # "OK" THEN HttpOfSearchError(r.code)
                           ELSE IF PatientResponse(PatientProtoDictKeys).exc # "none"
                           THEN 500
                           ELSE 200,
                  code |-> r.code, ret |-> r.ret, rpc |-> <<"SearchPatientById">>,
                  repo |-> r.repo, wrote |-> FALSE, store |-> r.store]

\* GrpcClient.update_patient copies these keys of patient_data into the
\* request, next to patient_uuid, and sets no updateData
ClientUpdateKeys ==
    {"patient_id", "name", "birth_date", "height", "weight", "blood_type",
     "diagnosis"}

ClientUpdateRequest(patient_uuid, patient_data) ==
    [patient_uuid |-> patient_uuid,
     kwargs |-> [k \in DOMAIN patient_data \cap ClientUpdateKeys |-> patient_data[k]],
     updateData |-> EmptyDict]

\* update_patient without the test for an empty patient_data
gw_update_patient_no_empty_check(st, patient_uuid, body, token, t) ==
    LET user == require_doctor(token)
        patient == GwPatientUpdate(body)
    IN  IF user.exc # "none" THEN Refused(st, user.status_code)
        ELSE IF patient.exc # "none" THEN Refused(st, 422)
        ELSE LET request == ClientUpdateRequest(patient_uuid, patient.val)
                 r == RpcUpdatePatient(st, request.patient_uuid,
                                       request.updateData, t)
             IN  [http |-> IF r.code # "OK" THEN HttpOfRpcError(r.code)
                           ELSE IF PatientResponse(PatientProtoDictKeys).exc # "none"
                           THEN 500
                           ELSE 200,
                  code |-> r.code, ret |-> r.ret, rpc |-> <<"UpdatePatient">>,
                  repo |-> r.repo, wrote |-> r.wrote, store |-> r.store]

\* PUT /patients/{patient_uuid}
gw_update_patient(st, patient_uuid, body, token, t) ==
    LET user == require_doctor(token)
        patient == GwPatientUpdate(body)
    IN  IF user.exc # "none" THEN Refused(st, user.status_code)
        ELSE IF patient.exc # "none" THEN Refused(st, 422)
        ELSE IF DOMAIN patient.val = {} THEN Refused(st, 400)
        ELSE LET request == ClientUpdateRequest(patient_uuid, patient.val)
                 r == RpcUpdatePatient(st, request.patient_uuid,
                                       request.updateData, t)
             IN  [http |-> IF r.code # "OK" THEN HttpOfRpcError(r.code)
                           ELSE IF PatientResponse(PatientProtoDictKeys).exc # "none"
                           THEN 500
                           ELSE 200,
                  code |-> r.code, ret |-> r.ret, rpc |-> <<"UpdatePatient">>,
                  repo |-> r.repo, wrote |-> r.wrote, store |-> r.store]

\* delete_patient without the role gate
gw_delete_patient_no_gate(st, patient_uuid, token) ==
    LET r == RpcDeletePatient(st, patient_uuid)
    IN  [http |-> IF r.code # "OK" THEN HttpOfRpcError(r.code) ELSE 200,
         code |-> r.code, ret |-> r.ret, rpc |-> <<"DeletePatient">>,
         repo |-> r.repo, wrote |-> r.store # st, store |-> r.store]

\* DELETE /patients/{patient_uuid}
gw_delete_patient(st, patient_uuid, token) ==
    LET user == require_doctor(token)
    IN  IF user.exc # "none" THEN Refused(st, user.status_code)
        ELSE LET r == RpcDeletePatient(st, patient_uuid)
             IN  [http |-> IF r.code # "OK" THEN HttpOfRpcError(r.code) ELSE 200,
                  code |-> r.code, ret |-> r.ret, rpc |-> <<"DeletePatient">>,
                  repo |-> r.repo, wrote |-> r.store # st, store |-> r.store]

\* the bodies and queries the routes are called with
GwUpdateBodies ==
    { EmptyDict,
      [contacts |-> None_],
      [contacts |-> ContactsPhone],
      [conditions |-> <<Cond1>>],
      [demographics |-> [name |-> Name1]] }

GwSkips == {-1, 0}
GwLimits == {0, 1, 1001}
SearchIds == PatientIds \cup {"P-404"}

HttpCreatePatient(body, token) ==
    \E uuid \in uuid4 :
        LET r == gw_create_patient(store, body, token, uuid, now)
        IN  /\ r.wrote => uuid \in Uuids
            /\ store' = r.store
            /\ drawn' = IF r.wrote THEN drawn \cup {uuid} ELSE drawn
            /\ last' = Answer(Request("POST /patients", "", body, token),
                              r.code, r.http, r.ret, r.rpc, r.repo)
            /\ UNCHANGED <<now, nUpdates, calls>>

HttpGetAllPatients(skip, limit, token) ==
    LET r == gw_get_all_patients(store, skip, limit, token)
    IN  /\ last' = Answer(Request("GET /patients", "",
                                  [skip |-> skip, limit |-> limit], token),
                          r.code, r.http, r.ret, r.rpc, r.repo)
        /\ UNCHANGED <<store, now, drawn, nUpdates, calls>>

HttpSearchPatientById(patient_id, token) ==
    LET r == gw_search_patient_by_id(store, patient_id, token)
    IN  /\ last' = Answer(Request("GET /patients/search/{patient_id}", patient_id,
                                  EmptyDict, token),
                          r.code, r.http, r.ret, r.rpc, r.repo)
        /\ UNCHANGED <<store, now, drawn, nUpdates, calls>>

HttpUpdatePatient(patient_uuid, body, token) ==
    LET r == gw_update_patient(store, patient_uuid, body, token, now + 1)
    IN  /\ r.wrote => now < MaxTime
        /\ store' = r.store
        /\ now' = IF r.wrote THEN now + 1 ELSE now
        /\ nUpdates' = IF r.wrote
                        THEN [nUpdates EXCEPT ![UUID(patient_uuid)] = @ + 1]
                        ELSE nUpdates
        /\ UNCHANGED <<drawn, calls>>
        /\ last' = Answer(Request("PUT /patients/{patient_uuid}", patient_uuid,
                                  body, token),
                          r.code, r.http, r.ret, r.rpc, r.repo)

HttpDeletePatient(patient_uuid, token) ==
    LET r == gw_delete_patient(store, patient_uuid, token)
    IN  /\ store' = r.store
        /\ last' = Answer(Request("DELETE /patients/{patient_uuid}", patient_uuid,
                                  EmptyDict, token),
                          r.code, r.http, r.ret, r.rpc, r.repo)
        /\ UNCHANGED <<now, drawn, nUpdates, calls>>

(***************************************************************************)
(* The collection a node starts with.  MongoDB outlives the process:       *)
(* Database.initialize attaches to the "patients" collection as it is, so  *)
(* a node may start with documents written earlier through the Patient     *)
(* model (version 1, the three times equal), no two with the same          *)
(* identity.patientId.                                                     *)
(***************************************************************************)
\* the clients with an RPC call of their own, and a client with none yet
Callers == {1, 2}

Idle == [pc |-> "idle"]

StoredAtStart(uuid) ==
    Patient([identity |-> [patientId |-> IF uuid = 1 THEN "P-001" ELSE "P-002"],
             demographics |-> DemoReq1,
             contacts |-> IF uuid = 1 THEN ContactsFull ELSE None_,
             meta |-> [sourceHospital |-> "HOSP-A"]],
            uuid, 0, 0, 0).val

StoresAtStart ==
    { [u \in Uuids |-> IF u \in present THEN StoredAtStart(u) ELSE None_] :
        present \in SUBSET Uuids }

Init ==
    /\ store \in StoresAtStart
    /\ now = 0
    /\ drawn = {u \in Uuids : store[u] # None_}
    /\ nUpdates = [u \in Uuids |-> 0]
    /\ last = Answer(Request("", "", EmptyDict, NoToken), "", 0, None_, <<>>, <<>>)
    /\ calls = [c \in Callers |-> Idle]

Next ==
    \/ \E patientData \in CreatePayloads : CreatePatient(patientData)
    \/ \E id \in IdStrings : GetPatient(id)
    \/ \E id \in IdStrings, updateData \in UpdatePayloads : UpdatePatient(id, updateData)
    \/ \E id \in IdStrings : DeletePatient(id)
    \/ \E id \in IdStrings, token \in Tokens : HttpGetPatient(id, token)
    \/ \E skip \in ListSkips, limit \in ListLimits : GetAllPatients(skip, limit)
    \/ \E patient_id \in SearchIds : SearchPatientById(patient_id)

Spec == Init /\ [][Next]_vars

(***************************************************************************)
(* The node as its HTTP callers see it: every request comes through a      *)
(* route of the gateway.                                                   *)
(***************************************************************************)
NextGateway ==
    \/ \E body \in CreatePayloads, token \in Tokens : HttpCreatePatient(body, token)
    \/ \E id \in IdStrings, token \in Tokens : HttpGetPatient(id, token)
    \/ \E skip \in GwSkips, limit \in GwLimits, token \in Tokens :
          HttpGetAllPatients(skip, limit, token)
    \/ \E patient_id \in SearchIds, token \in Tokens :
          HttpSearchPatientById(patient_id, token)
    \/ \E id \in IdStrings, body \in GwUpdateBodies, token \in Tokens :
          HttpUpdatePatient(id, body, token)
    \/ \E id \in IdStrings, token \in Tokens : HttpDeletePatient(id, token)

SpecGateway == Init /\ [][NextGateway]_vars

(***************************************************************************)
(* Vocabulary of the properties                                            *)
(***************************************************************************)
Stored(st) == {u \in DOMAIN st : st[u] # None_}

StoredPatientIds(st) == {st[u].identity.patientId : u \in Stored(st)}

\* the step just taken handled a CreatePatient whose payload the
\* PatientCreate model accepts
CreateHandled ==
    /\ last'.op = "CreatePatient"
    /\ PatientCreate(last'.req).exc = "none"

(***************************************************************************)
(* C1: a CreatePatient whose identity.patientId is that of a stored        *)
(* document is answered ALREADY_EXISTS and leaves the collection, the      *)
(* stored document included, as it was.                                    *)
(***************************************************************************)
C1_DuplicateCreateRejected ==
    [][ (CreateHandled /\ last'.req.identity.patientId \in StoredPatientIds(store))
            => (last'.code = "ALREADY_EXISTS" /\ store' = store) ]_vars

C1_Witness ==
    /\ last.op = "CreatePatient"
    /\ last.repo = <<"create_patient">>
    /\ last.code = "ALREADY_EXISTS"
    /\ last.req.identity.patientId \in StoredPatientIds(store)

(***************************************************************************)
(* C2: no two stored documents have the same identity.patientId.           *)
(***************************************************************************)
C2_PatientIdUnique ==
    \A u, v \in Stored(store) :
        u # v => store[u].identity.patientId # store[v].identity.patientId

C2_Witness ==
    /\ Cardinality(Stored(store)) = 2
    /\ last.op = "CreatePatient"
    /\ last.repo = <<"create_patient">>
    /\ last.req.identity.patientId \in StoredPatientIds(store)

(***************************************************************************)
(* C3: a CreatePatient for a patientId that is not stored succeeds and     *)
(* stores a document with version 1, created_at equal to updated_at and    *)
(* meta.sourceHospital equal to the request's sourceHospital.              *)
(***************************************************************************)
C3_CreateStoresFreshDocument ==
    [][ (CreateHandled /\ last'.req.identity.patientId \notin StoredPatientIds(store))
            => /\ last'.code = "OK"
               /\ \E u \in Stored(store') \ Stored(store) :
                     /\ store'[u].identity.patientId = last'.req.identity.patientId
                     /\ store'[u].version = 1
                     /\ store'[u].created_at = store'[u].updated_at
                     /\ store'[u].meta.sourceHospital = last'.req.sourceHospital ]_vars

\* the step just taken handled an UpdatePatient for a stored document, and
\* the PatientUpdate model accepted its payload
UpdateHandled ==
    /\ last'.op = "UpdatePatient"
    /\ UUID(last'.id) \in Stored(store)
    /\ PatientUpdate(last'.req).exc = "none"

\* the fields of the payload that the PatientUpdate model takes
Supplied(req) == DOMAIN PatientUpdate(req).val

(***************************************************************************)
(* C4: the version of a stored document is 1 plus the number of updates    *)
(* that supplied at least one field and succeeded since it was created.    *)
(***************************************************************************)
C4_VersionCountsUpdates ==
    \A u \in Stored(store) : store[u].version = 1 + nUpdates[u]

(***************************************************************************)
(* C5: an update of a stored document that supplies no field returns the   *)
(* stored document and changes nothing in the collection.                  *)
(***************************************************************************)
C5_EmptyUpdateIsNoOp ==
    [][ (UpdateHandled /\ Supplied(last'.req) = {})
            => /\ last'.code = "OK"
               /\ last'.ret = store[UUID(last'.id)]
               /\ store' = store ]_vars

C5_Witness ==
    /\ last.op = "UpdatePatient"
    /\ last.req = EmptyDict
    /\ last.repo = <<"update_patient">>
    /\ last.code = "OK"
    /\ last.ret = store[UUID(last.id)]
    /\ nUpdates[UUID(last.id)] > 0

(***************************************************************************)
(* C6: the version stored under an internal id never decreases.            *)
(***************************************************************************)
C6_VersionNeverDecreases ==
    [][ \A u \in Stored(store) \cap Stored(store') :
            store'[u].version >= store[u].version ]_vars

C6_Witness ==
    /\ last.op = "UpdatePatient"
    /\ last.code = "OK"
    /\ nUpdates[UUID(last.id)] = 2
    /\ store[UUID(last.id)].version >= 1

\* a field of a stored document's contacts; a document without contacts
\* has none of them
ContactOf(doc, k) == IF doc.contacts = None_ THEN "None" ELSE doc.contacts[k]

(***************************************************************************)
(* C7: an update that supplies only contacts.phone sets that field and     *)
(* leaves contacts.address, contacts.email, demographics, conditions and   *)
(* every other section of the stored document as they were (updated_at,    *)
(* lastUpdated and version, which an update is to refresh, aside).         *)
(***************************************************************************)
C7_PhoneOnlyUpdateKeepsTheRest ==
    [][ (UpdateHandled /\ last'.req = [contacts |-> ContactsPhone])
            => LET u == UUID(last'.id)
               IN  /\ ContactOf(store'[u], "phone") = ContactsPhone.phone
                   /\ ContactOf(store'[u], "address") = ContactOf(store[u], "address")
                   /\ ContactOf(store'[u], "email") = ContactOf(store[u], "email")
                   /\ \A k \in {"id", "identity", "demographics", "conditions",
                                 "allergies", "meta", "created_at"} :
                         store'[u][k] = store[u][k] ]_vars

(***************************************************************************)
(* C8: an update of a stored document that supplies at least one field     *)
(* sets both updated_at and lastUpdated of the stored document to the      *)
(* time of the update.                                                     *)
(***************************************************************************)
C8_UpdateRefreshesBothTimes ==
    [][ (UpdateHandled /\ Supplied(last'.req) # {})
            => LET u == UUID(last'.id)
               IN  /\ store'[u].updated_at = now'
                   /\ store'[u].lastUpdated = now' ]_vars

(***************************************************************************)
(* C9: while a document is stored, its id, created_at, identity and meta   *)
(* stay what they were, whatever is updated.                               *)
(***************************************************************************)
C9_CreationFieldsImmutable ==
    [][ \A u \in Stored(store) \cap Stored(store') :
            \A k \in {"id", "created_at", "identity", "meta"} :
                store'[u][k] = store[u][k] ]_vars

C9_Witness ==
    /\ last.op = "UpdatePatient"
    /\ last.code = "OK"
    /\ "identity" \in DOMAIN last.req
    /\ last.ret = store[UUID(last.id)]
    /\ last.ret.updated_at = now
    /\ last.ret.identity.patientId # last.req.identity.patientId

(***************************************************************************)
(* C10: a verified caller of role patient bound to patient_uuid X who      *)
(* asks GET /patients/Y with Y # X is answered 403, and the request makes  *)
(* no RPC and no repository call.                                          *)
(***************************************************************************)
PatientAsksForAnother ==
    /\ last.op = "GET /patients/{patient_uuid}"
    /\ last.token.ok
    /\ last.token.payload.role = "patient"
    /\ last.token.payload.patient_uuid # last.id

C10_PatientReadsOnlyOwnRecord ==
    PatientAsksForAnother
        => (last.http = 403 /\ last.rpc = <<>> /\ last.repo = <<>>)

C10_Witness ==
    /\ PatientAsksForAnother
    /\ last.http = 403
    /\ UUID(last.id) \in Stored(store)

(***************************************************************************)
(* Vocabulary of the gateway properties                                    *)
(***************************************************************************)
GatewayRoutes ==
    {"POST /patients", "GET /patients/{patient_uuid}", "GET /patients",
     "GET /patients/search/{patient_id}", "PUT /patients/{patient_uuid}",
     "DELETE /patients/{patient_uuid}"}

\* the roles a route accepts
AcceptedRoles(op) ==
    IF op = "GET /patients/{patient_uuid}" THEN {"doctor", "patient"}
    ELSE {"doctor"}

(***************************************************************************)
(* C11: on every /patients route, a request whose token fails verification *)
(* is answered 401 and a request whose verified role the route does not    *)
(* accept is answered 403; neither makes an RPC or a repository call.      *)
(***************************************************************************)
C11_GateBeforeBackend ==
    last.op \in GatewayRoutes =>
        /\ ~ last.token.ok
              => (last.http = 401 /\ last.rpc = <<>> /\ last.repo = <<>>)
        /\ (last.token.ok /\ last.token.payload.role \notin AcceptedRoles(last.op))
              => (last.http = 403 /\ last.rpc = <<>> /\ last.repo = <<>>)

C11_Witness ==
    /\ last.op = "DELETE /patients/{patient_uuid}"
    /\ last.token.ok
    /\ last.token.payload.role = "patient"
    /\ last.http = 403
    /\ UUID(last.id) \in Stored(store)

\* the HTTP status the translation gives an RPC status that is not OK
HttpOfStatus(code) ==
    CASE code = "INVALID_ARGUMENT" -> 400
      [] code = "ALREADY_EXISTS" -> 409
      [] code = "NOT_FOUND" -> 404
      [] OTHER -> 500

C13_RpcStatusOfOutcome ==
    [][ /\ last'.op = "CreatePatient"
            => IF PatientCreate(last'.req).exc # "none"
               THEN last'.code = "INTERNAL"
               ELSE last'.req.identity.patientId \in StoredPatientIds(store)
                        => last'.code = "ALREADY_EXISTS"
        /\ last'.op \in {"GetPatient", "UpdatePatient", "DeletePatient"}
            => IF UUID(last'.id) = BadUuid
               THEN last'.code = "INVALID_ARGUMENT"
               ELSE IF last'.op = "UpdatePatient" /\ PatientUpdate(last'.req).exc # "none"
               THEN last'.code = "INTERNAL"
               ELSE store[UUID(last'.id)] = None_ => last'.code = "NOT_FOUND" ]_vars

\* the step just taken ran the handler of GetPatient, UpdatePatient or
\* DeletePatient on an id that is no UUID
MalformedIdHandled ==
    /\ last'.op \in {"GetPatient", "UpdatePatient", "DeletePatient"}
    /\ UUID(last'.id) = BadUuid

(***************************************************************************)
(* C14: GetPatient, UpdatePatient and DeletePatient answer an id that is   *)
(* no well-formed UUID with INVALID_ARGUMENT, call no repository function  *)
(* and leave the collection as it was.                                     *)
(***************************************************************************)
C14_MalformedIdShortCircuits ==
    [][ MalformedIdHandled
            => /\ last'.code = "INVALID_ARGUMENT"
               /\ last'.repo = <<>>
               /\ store' = store ]_vars

C14_Witness ==
    /\ last.op = "DeletePatient"
    /\ last.id = "not-a-uuid"
    /\ last.code = "INVALID_ARGUMENT"
    /\ Cardinality(Stored(store)) = 2

\* the updatable sections a PUT body supplies: those it names with a value
\* that is not null
SuppliedUpdatable(body) ==
    {f \in DOMAIN body \cap {"demographics", "contacts", "conditions"} :
        f = "conditions" \/ body[f] # None_}

\* the last request was a PUT of a doctor whose body the route's model
\* accepts
PutHandled ==
    /\ last.op = "PUT /patients/{patient_uuid}"
    /\ last.token.ok
    /\ last.token.payload.role = "doctor"
    /\ GwPatientUpdate(last.req).exc = "none"

(***************************************************************************)
(* C15: a PUT whose body supplies no updatable field is answered 400 and   *)
(* makes no RPC; a PUT whose body supplies one goes on to the UpdatePatient *)
(* RPC.                                                                    *)
(***************************************************************************)
C15_EmptyPutRejected ==
    PutHandled =>
        IF SuppliedUpdatable(last.req) = {}
        THEN last.http = 400 /\ last.rpc = <<>> /\ last.repo = <<>>
        ELSE last.rpc = <<"UpdatePatient">>

C15_Witness ==
    /\ PutHandled
    /\ last.req = [contacts |-> None_]
    /\ last.http = 400
    /\ UUID(last.id) \in Stored(store)

\* the ids whose document was stored and has been deleted
Deleted == drawn \ Stored(store)

\* the step just taken called a repository function for uuid u
RepoCalledFor(u) ==
    /\ last'.op \in {"GetPatient", "UpdatePatient", "DeletePatient"}
    /\ UUID(last'.id) = u
    /\ last'.repo # <<>>

(***************************************************************************)
(* C16: a delete answered OK leaves no document under the id, and from     *)
(* then on the id stays without document and every get, update and delete  *)
(* that reaches the repository for it is answered NOT_FOUND.               *)
(***************************************************************************)
C16_DeletedStaysDeleted ==
    [][ /\ (last'.op = "DeletePatient" /\ last'.code = "OK")
              => store'[UUID(last'.id)] = None_
        /\ \A u \in Deleted :
              /\ store'[u] = None_
              /\ RepoCalledFor(u) => last'.code = "NOT_FOUND" ]_vars

C16_Witness ==
    /\ last.op = "UpdatePatient"
    /\ last.req = [contacts |-> ContactsPhone]
    /\ UUID(last.id) \in Deleted
    /\ last.code = "NOT_FOUND"

\* the step just taken was a DELETE that reached the DeletePatient RPC
\* with a well-formed id
DeleteRouted ==
    /\ last'.op = "DELETE /patients/{patient_uuid}"
    /\ last'.rpc = <<"DeletePatient">>
    /\ UUID(last'.id) # BadUuid

(***************************************************************************)
(* C17: a delete of an id without document is answered NOT_FOUND with      *)
(* success false and HTTP 404 and leaves the collection as it was; a       *)
(* delete of a stored document is answered OK with success true and 200.   *)
(***************************************************************************)
C17_DeleteOfMissingIsNotFound ==
    [][ DeleteRouted =>
            IF store[UUID(last'.id)] = None_
            THEN /\ last'.code = "NOT_FOUND"
                 /\ last'.ret = DeletePatientResponse(FALSE)
                 /\ last'.http = 404
                 /\ store' = store
            ELSE /\ last'.code = "OK"
                 /\ last'.ret = DeletePatientResponse(TRUE)
                 /\ last'.http = 200 ]_vars

C17_Witness ==
    /\ last.op = "DELETE /patients/{patient_uuid}"
    /\ last.http = 404
    /\ last.ret = DeletePatientResponse(FALSE)
    /\ UUID(last.id) \notin Stored(store)
    /\ Stored(store) # {}

(***************************************************************************)
(* C18: GetAllPatients hands the repository the skip max(0, requested) and *)
(* the limit 100 when the requested limit is not positive, else            *)
(* min(requested, 1000); that limit is between 1 and 1000.                 *)
(***************************************************************************)
C18_ListArgumentsClamped ==
    last.op = "GetAllPatients" =>
        /\ last.ret.skip = IF last.req.skip > 0 THEN last.req.skip ELSE 0
        /\ last.ret.limit = IF last.req.limit <= 0 THEN 100
                             ELSE IF last.req.limit < 1000 THEN last.req.limit
                             ELSE 1000
        /\ last.ret.limit >= 1
        /\ last.ret.limit <= 1000

\* the documents of a page
Page(patients) == {patients[i] : i \in 1..Len(patients)}

(***************************************************************************)
(* C19: every list returns at most limit documents; over a collection of   *)
(* 2k documents, list(skip=0, limit=k) followed at once by                 *)
(* list(skip=k, limit=k) returns two disjoint pages of k documents whose   *)
(* union is the collection.                                                *)
(***************************************************************************)
C19_PagesPartition ==
    [][ last'.op = "GetAllPatients" =>
          /\ last'.req.limit > 0 => Len(last'.ret.patients) <= last'.req.limit
          /\ LET k == Cardinality(Stored(store)) \div 2
             IN  ( /\ k >= 1
                   /\ Cardinality(Stored(store)) = 2 * k
                   /\ last.op = "GetAllPatients"
                   /\ last.req = [skip |-> 0, limit |-> k]
                   /\ last'.req = [skip |-> k, limit |-> k] )
                 => /\ Len(last.ret.patients) = k
                    /\ Len(last'.ret.patients) = k
                    /\ Page(last.ret.patients) \cap Page(last'.ret.patients) = {}
                    /\ Page(last.ret.patients) \cup Page(last'.ret.patients)
                          = {store[u] : u \in Stored(store)} ]_vars

C19_Witness ==
    /\ last.op = "GetAllPatients"
    /\ last.req = [skip |-> 1, limit |-> 1]
    /\ Cardinality(Stored(store)) = 2
    /\ last.ret.patients = <<store[2]>>
    /\ nUpdates[2] > 0

(***************************************************************************)
(* The codec.  Here a Python value carries its type: [t |-> type, v |->    *)
(* denotation], where a date, a datetime and their ISO text have the same  *)
(* denotation and differ in type.                                          *)
(***************************************************************************)
PyNone == [t |-> "None"]
PyStr(s) == [t |-> "str", v |-> s]
PyBool(b) == [t |-> "bool", v |-> b]
PyInt(n) == [t |-> "int", v |-> n]
PyUUID(u) == [t |-> "UUID", v |-> u]
PyDate(s) == [t |-> "date", v |-> s]
PyDateTime(s) == [t |-> "datetime", v |-> s]
PyDict(d) == [t |-> "dict", v |-> d]
PyList(l) == [t |-> "list", v |-> l]

\* Optional[str], Optional[date]
PyOptStr(s) == IF s = "None" THEN PyNone ELSE PyStr(s)
PyOptDate(s) == IF s = "None" THEN PyNone ELSE PyDate(s)

\* the fields of the models with their declared types (models.py)
PyIdentityInfo(o) ==
    PyDict([patientId |-> PyStr(o.patientId), mrn |-> PyOptStr(o.mrn),
            nationalId |-> PyOptStr(o.nationalId)])

PyDemographics(o) ==
    PyDict([name |-> PyDict([given |-> PyStr(o.name.given),
                             family |-> PyStr(o.name.family)]),
            dob |-> PyDate(o.dob),
            sexAtBirth |-> PyOptStr(o.sexAtBirth),
            genderIdentity |-> PyOptStr(o.genderIdentity),
            deceased |-> PyBool(o.deceased)])

PyContactInfo(o) ==
    IF o = None_ THEN PyNone
    ELSE PyDict([address |-> PyOptStr(o.address), phone |-> PyOptStr(o.phone),
                 email |-> PyOptStr(o.email)])

PyCondition(o) ==
    PyDict([id |-> PyStr(o.id), code |-> PyOptStr(o.code),
            system |-> PyOptStr(o.system), description |-> PyStr(o.description),
            onset |-> PyOptDate(o.onset), status |-> PyStr(o.status),
            recordedAt |-> PyDateTime(o.recordedAt),
            encounterId |-> PyOptStr(o.encounterId)])

PyMetaInfo(o) ==
    PyDict([sourceHospital |-> PyStr(o.sourceHospital),
            replicaVector |-> PyDict(o.replicaVector)])

\* patient.model_dump(): the document as a dict of Python values
model_dump(patient) ==
    [id |-> PyUUID(patient.id), version |-> PyInt(patient.version),
     lastUpdated |-> PyDateTime(patient.lastUpdated),
     identity |-> PyIdentityInfo(patient.identity),
     demographics |-> PyDemographics(patient.demographics),
     contacts |-> PyContactInfo(patient.contacts),
     conditions |-> PyList([i \in 1..Len(patient.conditions) |->
                               PyCondition(patient.conditions[i])]),
     allergies |-> PyList(patient.allergies),
     meta |-> PyMetaInfo(patient.meta),
     created_at |-> PyDateTime(patient.created_at),
     updated_at |-> PyDateTime(patient.updated_at)]

\* mode='json': a UUID, a date and a datetime become their text
RECURSIVE ToJsonable(_)
ToJsonable(x) ==
    CASE x.t = "dict" -> PyDict([k \in DOMAIN x.v |-> ToJsonable(x.v[k])])
      [] x.t = "list" -> PyList([i \in 1..Len(x.v) |-> ToJsonable(x.v[i])])
      [] x.t \in {"UUID", "date", "datetime"} -> PyStr(x.v)
      [] OTHER -> x

model_dump_json(patient) ==
    [k \in DOMAIN model_dump(patient) |-> ToJsonable(model_dump(patient)[k])]

\* google.protobuf Struct.update: the Value each Python value is stored as
RECURSIVE StructValue(_)
StructValue(x) ==
    CASE x.t = "None" -> [t |-> "null_value"]
      [] x.t = "bool" -> [t |-> "bool_value", v |-> x.v]
      [] x.t = "str" -> [t |-> "string_value", v |-> x.v]
      [] x.t \in {"int", "float"} -> [t |-> "number_value", v |-> x.v]
      [] x.t = "dict" ->
            [t |-> "struct_value", v |-> [k \in DOMAIN x.v |-> StructValue(x.v[k])]]
      [] x.t = "list" ->
            [t |-> "list_value", v |-> [i \in 1..Len(x.v) |-> StructValue(x.v[i])]]

Struct == [t |-> "struct_value", v |-> EmptyDict]

dict_to_struct(data) == StructValue(data)

\* a dict item becomes a Struct, any other item the text of str(item)
list_to_listvalue(data) ==
    [t |-> "list_value",
     v |-> [i \in 1..Len(data.v) |->
              IF data.v[i].t = "dict" THEN StructValue(data.v[i])
              ELSE [t |-> "string_value", v |-> data.v[i].v]]]

\* the PatientMessage a handler answers with
patient_to_proto(patient) ==
    LET patient_dict == model_dump_json(patient)
    IN  [id |-> patient_dict.id.v,
         version |-> patient.version,
         lastUpdated |-> patient_dict.lastUpdated.v,
         identity |-> dict_to_struct(patient_dict.identity),
         demographics |-> dict_to_struct(patient_dict.demographics),
         contacts |-> IF /\ patient_dict.contacts.t = "dict"
                         /\ DOMAIN patient_dict.contacts.v # {}
                      THEN dict_to_struct(patient_dict.contacts)
                      ELSE Struct,
         conditions |-> list_to_listvalue(patient_dict.conditions),
         allergies |-> list_to_listvalue(patient_dict.allergies),
         meta |-> dict_to_struct(patient_dict.meta),
         created_at |-> patient_dict.created_at.v,
         updated_at |-> patient_dict.updated_at.v]

\* json_format.MessageToDict of a Struct or ListValue
RECURSIVE MessageToDict(_)
MessageToDict(m) ==
    CASE m.t = "null_value" -> PyNone
      [] m.t = "bool_value" -> PyBool(m.v)
      [] m.t = "string_value" -> PyStr(m.v)
      [] m.t = "number_value" -> [t |-> "float", v |-> m.v]
      [] m.t = "struct_value" ->
            PyDict([k \in DOMAIN m.v |-> MessageToDict(m.v[k])])
      [] m.t = "list_value" ->
            PyList([i \in 1..Len(m.v) |-> MessageToDict(m.v[i])])

\* the texts date.fromisoformat and datetime.fromisoformat accept, among
\* those the model's documents hold
IsoDates == {"1990-01-15", "1991-01-15"}
IsoDateTimes == IsoDates \cup {"2026-01-25T10:42:31"}

RECURSIVE parse_dates_recursive(_)
parse_dates_recursive(obj) ==
    CASE obj.t = "dict" ->
            PyDict([key \in DOMAIN obj.v |->
                LET value == obj.v[key]
                IN  IF key = "dob" /\ value.t = "str"
                    THEN IF value.v \in IsoDates THEN PyDate(value.v) ELSE value
                    ELSE IF /\ key \in {"start", "end", "recordedAt", "grantedAt"}
                            /\ value.t = "str"
                    THEN IF value.v \in IsoDateTimes THEN PyDateTime(value.v)
                         ELSE value
                    ELSE parse_dates_recursive(value)])
      [] obj.t = "list" ->
            PyList([i \in 1..Len(obj.v) |-> parse_dates_recursive(obj.v[i])])
      [] OTHER -> obj

\* the sections of a PatientMessage read back the way the handlers read a
\* request's Struct
Sections ==
    {"identity", "demographics", "contacts", "conditions", "allergies", "meta"}

decode(message) ==
    [k \in Sections |-> parse_dates_recursive(MessageToDict(message[k]))]

(***************************************************************************)
(* C20: decoding the message a stored document is encoded to gives back    *)
(* every section of the document: identity, demographics, contacts,        *)
(* conditions in their order, allergies and meta, with an optional field   *)
(* that is None in the document None again, not an empty or default value. *)
(***************************************************************************)
C20_RoundTripReproduces ==
    (last.op = "GetPatient" /\ last.code = "OK")
        => \A k \in Sections :
              decode(patient_to_proto(last.ret))[k] = model_dump(last.ret)[k]

(***************************************************************************)
(* The decoding step of the handlers on its own: MessageToDict of the      *)
(* request's Struct, then parse_dates_recursive, as CreatePatient and      *)
(* UpdatePatient run it before they build their model.                     *)
(***************************************************************************)
MaxDepth == 2       \* how deep a request nests the fields

\* the field names and the values a request's Struct holds
WireKeys == {"dob", "onset", "recordedAt", "phone"}
WireTexts == {"1990-01-15", "2026-01-25T10:42:31", "soon"}
WireScalars ==
    {[t |-> "string_value", v |-> s] : s \in WireTexts} \cup {[t |-> "null_value"]}

\* a Struct of one or two of the fields
WireEntries ==
    { [t |-> "struct_value", v |-> [k \in {k1, k2} |-> IF k = k1 THEN v1 ELSE v2]] :
        k1 \in WireKeys, k2 \in WireKeys, v1 \in WireScalars, v2 \in WireScalars }

\* the Struct put under a section, or into a list under conditions, d times
RECURSIVE Nest(_, _)
Nest(d, x) ==
    IF d = 0 THEN x
    ELSE IF d % 2 = 1
    THEN [t |-> "struct_value", v |-> [k \in {"demographics"} |-> Nest(d - 1, x)]]
    ELSE [t |-> "struct_value",
          v |-> [k \in {"conditions"} |->
                    [t |-> "list_value", v |-> <<Nest(d - 1, x)>>]]]

WireStructs == {Nest(d, x) : d \in 0..MaxDepth, x \in WireEntries}

\* ret holds the dict the handler goes on with
DecodeRequest(data) ==
    /\ last' = Answer(Request("decode", "", data, NoToken), "", 0,
                      parse_dates_recursive(MessageToDict(data)), <<>>, <<>>)
    /\ UNCHANGED <<store, now, drawn, nUpdates, calls>>

NextCodec == \E data \in WireStructs : DecodeRequest(data)

\* the decoding reads nothing of the collection
InitCodec == Init /\ Stored(store) = {}

SpecCodec == InitCodec /\ [][NextCodec]_vars

\* decoding by the registry: dob and onset are dates, recordedAt is a
\* timestamp; a text that does not parse and every other field stay
RECURSIVE DecodedByRegistry(_)
DecodedByRegistry(obj) ==
    CASE obj.t = "dict" ->
            PyDict([key \in DOMAIN obj.v |->
                LET value == obj.v[key]
                IN  IF key \in {"dob", "onset"} /\ value.t = "str"
                    THEN IF value.v \in IsoDates THEN PyDate(value.v) ELSE value
                    ELSE IF key = "recordedAt" /\ value.t = "str"
                    THEN IF value.v \in IsoDateTimes THEN PyDateTime(value.v)
                         ELSE value
                    ELSE DecodedByRegistry(value)])
      [] obj.t = "list" ->
            PyList([i \in 1..Len(obj.v) |-> DecodedByRegistry(obj.v[i])])
      [] OTHER -> obj

(***************************************************************************)
(* C21: decoding turns, at any depth, the text under dob and onset into a  *)
(* date and the text under recordedAt into a timestamp, and leaves a text  *)
(* that does not parse and every other field as they are.                  *)
(***************************************************************************)
C21_DecodeFollowsRegistry ==
    last.op = "decode" => last.ret = DecodedByRegistry(MessageToDict(last.req))

(***************************************************************************)
(* A DELETE whose backend fails: the storage raises inside                 *)
(* crud_service.delete_patient, or the channel fails the call.  A text is  *)
(* a sequence of pieces, so that an f-string is a concatenation.           *)
(***************************************************************************)
\* str(e) of the exception the storage raises, details() of the error the
\* channel raises
ExceptionTexts ==
    {<<"No servers found yet">>, <<"connection closed">>}

Faults ==
    {[at |-> at, text |-> e] : at \in {"storage", "channel"}, e \in ExceptionTexts}

\* the body FastAPI sends for an HTTPException
ErrorBody(detail) == [detail |-> detail]

\* DeletePatient: the status and the details it sets on the context
RpcDeletePatientFault(st, id, fault) ==
    LET patient_uuid == UUID(id)
    IN  IF fault.at = "channel"
        THEN [code |-> "UNAVAILABLE", details |-> fault.text, repo |-> <<>>]
        ELSE IF patient_uuid = BadUuid
        THEN [code |-> "INVALID_ARGUMENT", details |-> <<"Invalid UUID format">>,
              repo |-> <<>>]
        ELSE [code |-> "INTERNAL",
              details |-> <<"Error deleting patient: ">> \o fault.text,
              repo |-> <<"delete_patient">>]

\* delete_patient: the except clauses with the detail they pass on
gw_delete_patient_fault(st, patient_uuid, token, fault) ==
    LET user == require_doctor(token)
    IN  IF user.exc # "none"
        THEN [http |-> user.status_code, code |-> "",
              ret |-> ErrorBody(IF user.status_code = 401
                                THEN <<"Invalid or expired token">>
                                ELSE <<"Doctor access required">>),
              rpc |-> <<>>, repo |-> <<>>]
        ELSE LET r == RpcDeletePatientFault(st, patient_uuid, fault)
             IN  [http |-> HttpOfRpcError(r.code), code |-> r.code,
                  ret |-> ErrorBody(IF r.code \in {"NOT_FOUND", "INVALID_ARGUMENT"}
                                    THEN r.details
                                    ELSE <<"gRPC error: ">> \o r.details),
                  rpc |-> <<"DeletePatient">>, repo |-> r.repo]

HttpDeletePatientFault(patient_uuid, token, fault) ==
    LET r == gw_delete_patient_fault(store, patient_uuid, token, fault)
    IN  /\ last' = Answer(Request("DELETE /patients/{patient_uuid}", patient_uuid,
                                  EmptyDict, token),
                          r.code, r.http, r.ret, r.rpc, r.repo)
        /\ UNCHANGED <<store, now, drawn, nUpdates, calls>>

NextFault ==
    \/ \E id \in IdStrings, token \in Tokens, fault \in Faults :
          HttpDeletePatientFault(id, token, fault)
    \/ \E id \in IdStrings, token \in Tokens : HttpDeletePatient(id, token)

SpecFault == Init /\ [][NextFault]_vars

\* an answer of status 500
Answered500(a) == a.op \in GatewayRoutes /\ a.http = 500

(***************************************************************************)
(* C22: two requests answered 500 that are the same request failing at     *)
(* the same place with the same RPC status, and so differ only in the text *)
(* of the internal error, get the same response body.                      *)
(***************************************************************************)
C22_InternalErrorIsGeneric ==
    [][ ( /\ Answered500(last) /\ Answered500(last')
          /\ last'.op = last.op /\ last'.id = last.id
          /\ last'.token = last.token
          /\ last'.code = last.code /\ last'.rpc = last.rpc
          /\ last'.repo = last.repo )
        => last'.ret = last.ret ]_vars

\* the RPC calls the node's contract calls safe to retry
RetryableRpcs ==
    {"GetPatient", "GetAllPatients", "SearchPatientById", "UpdatePatient",
     "DeletePatient"}

\* the step just taken handled the request of the step before once more
Retried ==
    /\ last'.op \in RetryableRpcs
    /\ last'.op = last.op /\ last'.id = last.id /\ last'.req = last.req

(***************************************************************************)
(* C23: a GetPatient, GetAllPatients, SearchPatientById, UpdatePatient or  *)
(* DeletePatient issued a second time in a row leaves the collection as    *)
(* the first one left it.                                                  *)
(***************************************************************************)
C23_RetryLeavesRepository == [][Retried => store' = store]_vars

\* the RPC a route stands for, and the adapter function an RPC stands for
RpcOfRoute(op) ==
    CASE op = "POST /patients" -> "CreatePatient"
      [] op = "GET /patients/{patient_uuid}" -> "GetPatient"
      [] op = "GET /patients" -> "GetAllPatients"
      [] op = "GET /patients/search/{patient_id}" -> "SearchPatientById"
      [] op = "PUT /patients/{patient_uuid}" -> "UpdatePatient"
      [] op = "DELETE /patients/{patient_uuid}" -> "DeletePatient"

AdapterOfRpc(rpc) ==
    CASE rpc = "CreatePatient" -> "create_patient"
      [] rpc = "GetPatient" -> "get_patient"
      [] rpc = "GetAllPatients" -> "get_all_patients"
      [] rpc = "SearchPatientById" -> "get_patient_by_patient_id"
      [] rpc = "UpdatePatient" -> "update_patient"
      [] rpc = "DeletePatient" -> "delete_patient"

(***************************************************************************)
(* C24: a request to a route of the gateway issues at most one RPC call,   *)
(* and that call is the RPC of the route; the RPC call invokes at most one *)
(* adapter function, once, and that function is the one of the RPC.        *)
(***************************************************************************)
C24_NoRetry ==
    last.op \in GatewayRoutes =>
        /\ Len(last.rpc) <= 1
        /\ Len(last.rpc) = 1 => last.rpc[1] = RpcOfRoute(last.op)
        /\ Len(last.repo) <= Len(last.rpc)
        /\ Len(last.repo) = 1 => last.repo[1] = AdapterOfRpc(last.rpc[1])

\* a search whose RPC failed inside the adapter: one call of each, no more
C24_Witness ==
    /\ last.op = "GET /patients/search/{patient_id}"
    /\ last.http = 500 /\ last.code = "INTERNAL"
    /\ last.rpc = <<"SearchPatientById">>
    /\ last.repo = <<"get_patient_by_patient_id">>

(***************************************************************************)
(* Two clients with one RPC call each.  The handlers are coroutines of one *)
(* event loop: a handler runs without interruption up to an await of the   *)
(* collection, and the collection serves one operation at a time, so a     *)
(* step is one operation of the collection with the code that follows it   *)
(* up to the next one.                                                     *)
(***************************************************************************)
ConcIds == {"u1", "u2", "not-a-uuid"}

ConcCreates ==
    { [identity |-> [patientId |-> p], demographics |-> DemoReq1,
       contacts |-> None_, sourceHospital |-> "HOSP-B"] : p \in PatientIds }

ConcUpdates ==
    { EmptyDict, [contacts |-> ContactsPhone], [contacts |-> ContactsFull],
      [demographics |-> DemoReq2] }

\* a call in flight: the request, the Patient its find_one returned, the
\* time it read from the clock; once done, the status and what the adapter
\* returned.  History: the callers in flight when it was issued, the rank
\* of its write among the writes of updates, and whether its document was
\* gone when its set ran.
InFlight(c) == calls[c].pc \in {"called", "found"}

Called(c, op, id, req) ==
    [pc |-> "called", op |-> op, id |-> id, req |-> req, patient |-> None_,
     t |-> 0, code |-> "", ret |-> None_,
     during |-> {d \in Callers \ {c} : InFlight(d)}, wroteAt |-> 0,
     missed |-> FALSE]

Found(call, patient, t) ==
    [call EXCEPT !.pc = "found", !.patient = patient, !.t = t]

Done(call, code, ret, wroteAt) ==
    [call EXCEPT !.pc = "done", !.code = code, !.ret = ret, !.wroteAt = wroteAt]

At(c, pc, op) == calls[c].pc = pc /\ calls[c].op = op

Call(c, op, id, req) ==
    /\ calls[c].pc = "idle"
    /\ calls' = [calls EXCEPT ![c] = Called(c, op, id, req)]
    /\ UNCHANGED <<store, now, drawn, nUpdates, last>>

\* CreatePatient awaits the collection once, for the insert
RunCreatePatient(c) ==
    /\ At(c, "called", "CreatePatient")
    /\ \E uuid \in uuid4 :
       \E t3 \in {now, IF now < MaxTime THEN now + 1 ELSE now} :
          LET r == RpcCreatePatient(store, calls[c].req, uuid, now, now, t3)
          IN  /\ r.wrote => uuid \in Uuids
              /\ store' = r.store
              /\ now' = IF r.wrote THEN t3 ELSE now
              /\ drawn' = IF r.wrote THEN drawn \cup {uuid} ELSE drawn
              /\ calls' = [calls EXCEPT ![c] = Done(@, r.code, r.ret, 0)]
              /\ UNCHANGED <<nUpdates, last>>

\* UpdatePatient up to update_patient's find_one and on to the call of set,
\* or to the return that comes before it
UpdateFind(c) ==
    /\ At(c, "called", "UpdatePatient")
    /\ now < MaxTime
    /\ LET patient_uuid == UUID(calls[c].id)
           patient_update == PatientUpdate(calls[c].req)
           patient == store[patient_uuid]
       IN  IF patient_uuid = BadUuid
           THEN /\ calls' = [calls EXCEPT ![c] = Done(@, "INVALID_ARGUMENT", None_, 0)]
                /\ now' = now
           ELSE IF patient_update.exc # "none"
           THEN /\ calls' = [calls EXCEPT ![c] = Done(@, "INTERNAL", None_, 0)]
                /\ now' = now
           ELSE IF patient = None_
           THEN /\ calls' = [calls EXCEPT ![c] = Done(@, "NOT_FOUND", None_, 0)]
                /\ now' = now
           ELSE IF DOMAIN patient_update.val = {}
           THEN /\ calls' = [calls EXCEPT ![c] = Done(@, "OK", patient, 0)]
                /\ now' = now
           ELSE /\ calls' = [calls EXCEPT ![c] = Found(@, patient, now + 1)]
                /\ now' = now + 1
    /\ UNCHANGED <<store, drawn, nUpdates, last>>

\* what Document.set does when its document is no longer stored is the
\* ORM's: it writes nothing, and either raises or returns
SetOfMissing == {"raises", "returns"}

\* patient.set(update_data) refusing to write over a document that changed
\* since it was read
patient_set_if_unchanged(st, patient, update_data) ==
    IF st[patient.id] = patient
    THEN LET doc == DocumentSet(st[patient.id], update_data)
         IN  [matched |-> TRUE, val |-> doc,
              store |-> [st EXCEPT ![patient.id] = doc]]
    ELSE [matched |-> FALSE, val |-> None_, store |-> st]

\* patient.set(update_data) inserting the document when none is stored
patient_set_upsert(st, patient, update_data) ==
    LET doc == DocumentSet(IF st[patient.id] # None_ THEN st[patient.id]
                           ELSE patient, update_data)
    IN  [matched |-> TRUE, val |-> doc,
         store |-> [st EXCEPT ![patient.id] = doc]]

\* patient.set(update_data): the $set on the stored document of the
\* patient's _id, which inserts nothing, and the document it left
patient_set(st, patient, update_data) ==
    IF st[patient.id] # None_
    THEN LET doc == DocumentSet(st[patient.id], update_data)
         IN  [matched |-> TRUE, val |-> doc,
              store |-> [st EXCEPT ![patient.id] = doc]]
    ELSE [matched |-> FALSE, val |-> None_, store |-> st]

\* update_patient from set on, and UpdatePatient's answer
UpdateSet(c) ==
    /\ At(c, "found", "UpdatePatient")
    /\ LET patient == calls[c].patient
           update_data ==
               [updated_at |-> calls[c].t] @@ PatientUpdate(calls[c].req).val
           r == patient_set(store, patient, update_data)
           wroteAt == nUpdates[1] + nUpdates[2] + 1
           missed == store[patient.id] = None_
       IN  /\ store' = r.store
           /\ IF r.matched
              THEN /\ calls' = [calls EXCEPT ![c] =
                                  [Done(@, "OK", r.val, wroteAt)
                                      EXCEPT !.missed = missed]]
                   /\ nUpdates' = [nUpdates EXCEPT ![patient.id] = @ + 1]
              ELSE /\ \E outcome \in SetOfMissing :
                        calls' = [calls EXCEPT ![c] =
                                    [(IF outcome = "raises"
                                      THEN Done(@, "INTERNAL", None_, 0)
                                      ELSE Done(@, "OK", patient, 0))
                                        EXCEPT !.missed = missed]]
                   /\ nUpdates' = nUpdates
    /\ UNCHANGED <<now, drawn, last>>

\* DeletePatient up to delete_patient's find_one
DeleteFind(c) ==
    /\ At(c, "called", "DeletePatient")
    /\ LET patient_uuid == UUID(calls[c].id)
       IN  calls' = [calls EXCEPT ![c] =
                IF patient_uuid = BadUuid
                THEN Done(@, "INVALID_ARGUMENT", DeletePatientResponse(FALSE), 0)
                ELSE IF store[patient_uuid] = None_
                THEN Done(@, "NOT_FOUND", DeletePatientResponse(FALSE), 0)
                ELSE Found(@, store[patient_uuid], 0)]
    /\ UNCHANGED <<store, now, drawn, nUpdates, last>>

\* delete_patient from patient.delete() on, and DeletePatient's answer
DeleteRemove(c) ==
    /\ At(c, "found", "DeletePatient")
    /\ store' = [store EXCEPT ![calls[c].patient.id] = None_]
    /\ calls' = [calls EXCEPT ![c] = Done(@, "OK", DeletePatientResponse(TRUE), 0)]
    /\ UNCHANGED <<now, drawn, nUpdates, last>>

NextConcurrent ==
    \E c \in Callers :
        \/ \E patientData \in ConcCreates : Call(c, "CreatePatient", "", patientData)
        \/ \E id \in ConcIds, updateData \in ConcUpdates :
              Call(c, "UpdatePatient", id, updateData)
        \/ \E id \in ConcIds : Call(c, "DeletePatient", id, EmptyDict)
        \/ RunCreatePatient(c)
        \/ UpdateFind(c)
        \/ UpdateSet(c)
        \/ DeleteFind(c)
        \/ DeleteRemove(c)

SpecConcurrent == Init /\ [][NextConcurrent]_vars

\* both callers are done with a call of this RPC, one issued while the
\* other was in flight
BothDone(op) ==
    /\ \A c \in Callers : At(c, "done", op)
    /\ \E c \in Callers : calls[c].during # {}

\* the stored documents with this patientId
StoredWithPatientId(p) ==
    {u \in Stored(store) : store[u].identity.patientId = p}

(***************************************************************************)
(* C25: two CreatePatient calls in flight together, with payloads the      *)
(* PatientCreate model accepts and the same identity.patientId, are both   *)
(* answered OK and leave two documents with that patientId.                *)
(***************************************************************************)
C25_InterleavedCreatesBothSucceed ==
    ( /\ BothDone("CreatePatient")
      /\ \A c \in Callers : PatientCreate(calls[c].req).exc = "none"
      /\ calls[1].req.identity.patientId = calls[2].req.identity.patientId )
    => /\ \A c \in Callers : calls[c].code = "OK" /\ calls[c].ret # None_
       /\ Cardinality(StoredWithPatientId(calls[1].req.identity.patientId)) >= 2

\* the fields both updates supply, and the caller whose write came last
SuppliedByBoth ==
    DOMAIN PatientUpdate(calls[1].req).val \cap DOMAIN PatientUpdate(calls[2].req).val

LastWriter == IF calls[1].wroteAt > calls[2].wroteAt THEN 1 ELSE 2

\* two updates of one stored document, both read before either wrote
UpdatesRaced ==
    /\ BothDone("UpdatePatient")
    /\ \A c \in Callers : calls[c].patient # None_
    /\ calls[1].patient = calls[2].patient

(***************************************************************************)
(* C26: when two updates of one stored document have both read it before   *)
(* either wrote, both write and are answered OK with the document holding  *)
(* what they supplied, and a field both supplied is stored with the value  *)
(* of the update that wrote last.                                          *)
(***************************************************************************)
C26_LastWriteWins ==
    UpdatesRaced =>
        LET u == calls[1].patient.id
        IN  /\ \A c \in Callers :
                 /\ calls[c].code = "OK"
                 /\ calls[c].wroteAt > 0
                 /\ calls[c].ret # None_
                 /\ \A f \in DOMAIN PatientUpdate(calls[c].req).val :
                       calls[c].ret[f] = ReadBack(f, calls[c].req[f])
            /\ store[u] # None_
            /\ \A f \in SuppliedByBoth :
                 store[u][f] = ReadBack(f, calls[LastWriter].req[f])

\* both updates supplied contacts, with different values
C26_Witness ==
    /\ UpdatesRaced
    /\ "contacts" \in SuppliedByBoth
    /\ calls[1].req.contacts # calls[2].req.contacts
    /\ calls[1].wroteAt > calls[2].wroteAt
    /\ store[calls[1].patient.id].contacts = ReadBack("contacts", calls[1].req.contacts)

\* the update of this caller read its document and ran its set after a
\* delete had removed the document
DeletedUnderUpdate(c) == At(c, "done", "UpdatePatient") /\ calls[c].missed

C28_AlreadyExistsOnlyForDuplicate ==
    [][ (last'.op = "CreatePatient" /\ last'.code = "ALREADY_EXISTS")
            => /\ PatientCreate(last'.req).exc = "none"
               /\ last'.req.identity.patientId \in StoredPatientIds(store) ]_vars

\* the step just taken handled a PUT of a doctor whose body the route's
\* model accepts and which supplies an updatable section
PutAccepted ==
    /\ last'.op = "PUT /patients/{patient_uuid}"
    /\ last'.token.ok
    /\ last'.token.payload.role = "doctor"
    /\ GwPatientUpdate(last'.req).exc = "none"
    /\ SuppliedUpdatable(last'.req) # {}

(***************************************************************************)
(* C29: the UpdatePatient request of an accepted PUT carries in updateData *)
(* every section the body supplies, and when the RPC answers OK the stored *)
(* document holds the body's value of each of them.                        *)
(***************************************************************************)
C29_PutReachesStore ==
    [][ PutAccepted =>
          LET body == GwPatientUpdate(last'.req).val
              request == ClientUpdateRequest(last'.id, body)
          IN  \A f \in SuppliedUpdatable(last'.req) :
                /\ f \in DOMAIN request.updateData
                /\ last'.code = "OK" =>
                      store'[UUID(last'.id)][f] = ReadBack(f, last'.req[f]) ]_vars

====
